---- MODULE Spec2Model ----
(***************************************************************************)
(* SLA reconciliation engine of productplan_api_tools:                     *)
(*   sla/calculator.py  the compliance calculator (pure functions)         *)
(*   sla/manager.py     the filter pipeline, sla_init and sla_update       *)
(*   sla/storage.py     the Excel and Google Sheets storage backends       *)
(*                                                                         *)
(* Time is counted in ticks, TicksPerDay ticks to a day, so that the       *)
(* timedelta.days of the code is a floor division and not the identity.    *)
(* Tick 0 is 2025-09-15T00:00:00Z, the floor cutoff of the filter.         *)
(***************************************************************************)
EXTENDS Integers, Sequences, FiniteSets, TLC

\* ------------------------------------------------------------------ bounds
TicksPerDay == 2
MaxCalls == 2

\* ------------------------------------------------------- program constants
ResponseWindowDays == 14
RoadmapWindowDays == 60

\* ------------------------------------------------------------------ values
\* Python's None (also: key absent), pandas' NaT, an unparseable string.
\* A timestamp value is a tagged tuple, so that a date, None, NaT and a
\* string that is no date are distinct values of one kind.
Ts(n) == <<"ts", n>>
NoneV == <<"None">>
NaT == <<"NaT">>
BadTs == <<"str", "not-a-date">>

IsTs(x) == x[1] = "ts"
Tick(x) == x[2]

\* datetime.fromisoformat inside try/except: a value that does not parse
\* leaves the variable at None.
ParseTs(raw) == IF IsTs(raw) THEN raw ELSE NoneV

\* (a - b).days of two datetimes: the floor of the difference in whole days.
DaysBetween(a, b) == (Tick(a) - Tick(b)) \div TicksPerDay

\* The timestamp d days and o ticks after tick 0.
At(d, o) == Ts(d * TicksPerDay + o)

VARIABLES
    cIdea,      \* calculator: the idea of the latest call
    cPrior,     \* calculator: the existing_sla_data of the latest call
    cNow,       \* calculator: datetime.utcnow() during the latest call
    cOut,       \* calculator: the result of the latest call
    cCalls,     \* calculator: number of calls made in this chain
    xlState,    \* Excel file at output_path: "absent", "workbook", "corrupt"
    xlSheets,   \* Excel workbook: its sheet names, in workbook order
    table,      \* Excel workbook: the rows of sheet 'SLA Tracking'
    runs,       \* Excel workbook: the rows of sheet 'Runs'
    passes,     \* number of sla_init / sla_update calls made
    lastOp,     \* the entry point called last: "sla_init", "sla_update"
    flow,       \* the flow the last call ran: "init", "update"
    outcome,    \* how the last call ended: "ok", "read_error", "write_error"
    fetchFilters,       \* the filters argument of its fetch_enhanced call
    fetched_idea_ids,   \* sla_update: ids fetched, before filtering
    filtered_idea_ids,  \* sla_update: ids that survived apply_idea_filters
    ideas_to_remove,    \* sla_update: ids whose rows the cleanup dropped
    log,        \* sla_update: per filtered record, in order, its branch
    filter_stats,       \* the statistics apply_idea_filters returned to the pass
    fIn,        \* filter pipeline: the DataFrame of the latest call
    fOut,       \* filter pipeline: the (df, stats) it returned
    fCalls,     \* filter pipeline: number of calls made
    gsTabs,     \* Google spreadsheet: the titles of its worksheets, in order
    gsMain,     \* Google spreadsheet: the values of the main worksheet
    gsRuns,     \* Google spreadsheet: the values of worksheet 'Runs'
    storeOps,   \* storage: number of write / record_run calls made
    storeOp,    \* storage: the latest call, its backend and its argument
    eIdea,      \* extract_idea_status: the idea of the call
    eOut,       \* extract_idea_status: what the call returned or raised
    hList,      \* fetch_enhanced: the list response and each detail request
    hOut,       \* fetch_enhanced: the list returned, or the exit of the process
    zIdea,      \* calculate_sla_columns on raw values: idea and existing_sla_data
    zOut        \* calculate_sla_columns on raw values: result or exception

calcVars == <<cIdea, cPrior, cNow, cOut, cCalls>>
storeVars == <<xlState, xlSheets, table, runs>>
passVars == <<passes, lastOp, flow, outcome, fetchFilters, fetched_idea_ids,
              filtered_idea_ids, ideas_to_remove, log, filter_stats>>
filterVars == <<fIn, fOut, fCalls>>
sheetVars == <<gsTabs, gsMain, gsRuns>>
opVars == <<storeOps, storeOp>>
fnVars == <<eIdea, eOut, hList, hOut, zIdea, zOut>>

\* ------------------------------------------------------------- calculator

MutResponseStamp(response_sla, idea_status, sla_date) ==
    IF idea_status # "" /\ idea_status # "On deck" THEN sla_date ELSE response_sla

MutResponseStampUndecided(response_sla, idea_status, sla_date) ==
    IF response_sla = NoneV /\ idea_status \notin {"", "On deck", "Accepted", "Rejected"}
    THEN sla_date
    ELSE response_sla

\* calculate_sla_columns, the response deadline: set once.
ResponseStamp(response_sla, idea_status, sla_date) ==
    IF response_sla = NoneV /\ idea_status # "" /\ idea_status # "On deck"
    THEN sla_date
    ELSE response_sla

MutRoadmapStamp(roadmap_sla, idea_status, sla_date) ==
    IF roadmap_sla = NoneV /\ idea_status # "" /\ idea_status # "On deck"
    THEN sla_date
    ELSE roadmap_sla

\* calculate_sla_columns, the roadmap deadline: set once.
RoadmapStamp(roadmap_sla, idea_status, sla_date) ==
    IF roadmap_sla = NoneV /\ idea_status \in {"Accepted", "Rejected"}
    THEN sla_date
    ELSE roadmap_sla

\* existing_sla_data.get(key) if existing_sla_data else None, then NaT -> None.
PriorDeadline(existing_sla_data, key) ==
    IF ~existing_sla_data.given THEN NoneV
    ELSE IF existing_sla_data[key] = NaT THEN NoneV
    ELSE existing_sla_data[key]

MutMeetsResponse(response_sla, idea_status, created_at) ==
    /\ response_sla # NoneV
    /\ idea_status # ""
    /\ idea_status # "On deck"
    /\ created_at # NoneV
    /\ DaysBetween(response_sla, created_at) < ResponseWindowDays

MeetsResponse(response_sla, idea_status, created_at) ==
    /\ response_sla # NoneV
    /\ idea_status # ""
    /\ idea_status # "On deck"
    /\ created_at # NoneV
    /\ DaysBetween(response_sla, created_at) <= ResponseWindowDays

MutMeetsRoadmapAnyStatus(roadmap_sla, idea_status, created_at) ==
    /\ roadmap_sla # NoneV
    /\ created_at # NoneV
    /\ DaysBetween(roadmap_sla, created_at) <= RoadmapWindowDays

MeetsRoadmap(roadmap_sla, idea_status, created_at) ==
    /\ roadmap_sla # NoneV
    /\ idea_status \in {"Accepted", "Rejected"}
    /\ created_at # NoneV
    /\ DaysBetween(roadmap_sla, created_at) <= RoadmapWindowDays

MutResponseStandingNoShortcut(idea_status, created_at, meets, now) ==
    IF created_at = NoneV THEN FALSE
    ELSE /\ DaysBetween(now, created_at) <= ResponseWindowDays
         /\ idea_status \in {"", "On deck"}

calculate_response_sla_in_good_standing(idea_status, created_at, meets, now) ==
    IF meets THEN TRUE
    ELSE IF created_at = NoneV THEN FALSE
    ELSE /\ DaysBetween(now, created_at) <= ResponseWindowDays
         /\ idea_status \in {"", "On deck"}

MutRoadmapStandingNoCreated(idea_status, created_at, meets, now) ==
    meets \/ idea_status \notin {"Accepted", "Rejected"}

calculate_roadmap_sla_in_good_standing(idea_status, created_at, meets, now) ==
    IF meets THEN TRUE
    ELSE IF created_at = NoneV THEN FALSE
    ELSE /\ DaysBetween(now, created_at) <= RoadmapWindowDays
         /\ idea_status \notin {"Accepted", "Rejected"}

NoPrior == [given |-> FALSE]
Prior(response_sla, roadmap_sla) ==
    [given |-> TRUE, response_sla |-> response_sla, roadmap_sla |-> roadmap_sla]

\* idea: [idea_status, created_at, updated_at] (the status is what
\* extract_idea_status returns); existing_sla_data: NoPrior (None) or
\* Prior(response_sla, roadmap_sla); now: datetime.utcnow().
calculate_sla_columns(idea, existing_sla_data, now) ==
    LET idea_status == idea.idea_status
        created_at == ParseTs(idea.created_at)
        updated_at == ParseTs(idea.updated_at)
        sla_date == IF updated_at # NoneV THEN updated_at ELSE now
        response_sla == ResponseStamp(PriorDeadline(existing_sla_data, "response_sla"),
                                      idea_status, sla_date)
        roadmap_sla == RoadmapStamp(PriorDeadline(existing_sla_data, "roadmap_sla"),
                                    idea_status, sla_date)
        meets_response == MeetsResponse(response_sla, idea_status, created_at)
        meets_roadmap == MeetsRoadmap(roadmap_sla, idea_status, created_at)
    IN  [response_sla |-> response_sla,
         roadmap_sla |-> roadmap_sla,
         currently_meets_response_sla |-> meets_response,
         currently_meets_roadmap_sla |-> meets_roadmap,
         response_sla_in_good_standing |->
            calculate_response_sla_in_good_standing(idea_status, created_at,
                                                    meets_response, now),
         roadmap_sla_in_good_standing |->
            calculate_roadmap_sla_in_good_standing(idea_status, created_at,
                                                   meets_roadmap, now)]

EmptyStr == <<"str", "">>

\* compare_timestamps(api_updated_at, spreadsheet_updated_at): TRUE iff the
\* API timestamp is newer. A value that is no date raises inside the try
\* (ValueError, AttributeError) and gives FALSE; a comparison with NaT is
\* False.
MutCompareTimestamps(api_updated_at, spreadsheet_updated_at) ==
    IF api_updated_at = NoneV \/ api_updated_at = EmptyStr THEN FALSE
    ELSE IF spreadsheet_updated_at = NoneV \/ spreadsheet_updated_at = EmptyStr
    THEN TRUE
    ELSE IF IsTs(api_updated_at) /\ IsTs(spreadsheet_updated_at)
    THEN Tick(api_updated_at) >= Tick(spreadsheet_updated_at)
    ELSE FALSE

compare_timestamps(api_updated_at, spreadsheet_updated_at) ==
    IF api_updated_at = NoneV \/ api_updated_at = EmptyStr THEN FALSE
    ELSE IF spreadsheet_updated_at = NoneV \/ spreadsheet_updated_at = EmptyStr
    THEN TRUE
    ELSE IF IsTs(api_updated_at) /\ IsTs(spreadsheet_updated_at)
    THEN Tick(api_updated_at) > Tick(spreadsheet_updated_at)
    ELSE FALSE

\* --------------------------------------------------------- filter pipeline
FloorCutoffDay == 0
JasonCutoffDay == 49

\* Filter 1: created_at >= 2025-09-15 (a comparison with NaT is False).
KeepDate(r) ==
    IsTs(r.created_at) /\ Tick(r.created_at) >= Tick(At(FloorCutoffDay, 0))

\* Filter 2: source_name == 'Jason Ladicos' and created_at < 2025-11-03.
JasonFilter(r) ==
    /\ r.source_name = "Jason Ladicos"
    /\ IsTs(r.created_at)
    /\ Tick(r.created_at) < Tick(At(JasonCutoffDay, 0))

MutTestFilter(r) == r.customer \in {"TEST", "TEST ", "test"}

\* Filter 3: customer == 'TEST'.
TestFilter(r) == r.customer = "TEST"

NotJason(r) == ~JasonFilter(r)
NotTest(r) == ~TestFilter(r)

MutFilterStats(df) ==
    IF Len(df) = 0
    THEN [df |-> df,
          stats |-> [initial_count |-> 0, date_filtered |-> 0, jason_filtered |-> 0,
                     test_filtered |-> 0, total_filtered |-> 0, remaining |-> 0]]
    ELSE LET d1 == SelectSeq(df, KeepDate)
             d2 == SelectSeq(d1, NotJason)
             d3 == SelectSeq(d2, NotTest)
         IN  [df |-> d3,
              stats |-> [initial_count |-> Len(df),
                         date_filtered |-> Len(df) - Len(d1),
                         jason_filtered |-> Len(SelectSeq(df, JasonFilter)),
                         test_filtered |-> Len(SelectSeq(d2, TestFilter)),
                         total_filtered |-> Len(df) - Len(d3),
                         remaining |-> Len(d3)]]

apply_idea_filters(df) ==
    IF Len(df) = 0
    THEN [df |-> df,
          stats |-> [initial_count |-> 0, date_filtered |-> 0, jason_filtered |-> 0,
                     test_filtered |-> 0, total_filtered |-> 0, remaining |-> 0]]
    ELSE LET d1 == SelectSeq(df, KeepDate)
             d2 == SelectSeq(d1, NotJason)
             d3 == SelectSeq(d2, NotTest)
         IN  [df |-> d3,
              stats |-> [initial_count |-> Len(df),
                         date_filtered |-> Len(df) - Len(d1),
                         jason_filtered |-> Len(SelectSeq(d1, JasonFilter)),
                         test_filtered |-> Len(SelectSeq(d2, TestFilter)),
                         total_filtered |-> Len(df) - Len(d3),
                         remaining |-> Len(d3)]]

\* ------------------------------------------------------------------ columns
\* The columns of a table by kind. A team column holds the flag 1 or 0 of
\* add_team_columns, written <<"int", 1>> and <<"int", 0>>.
DateColumns == {"created_at", "updated_at", "response_sla", "roadmap_sla"}
BoolColumns == {"currently_meets_response_sla", "currently_meets_roadmap_sla"}
TextColumns == {"name", "customer", "source_name", "idea_status"}
SlaColumns == {"response_sla", "roadmap_sla"} \cup BoolColumns
TeamColumns == {"Engineering", "Product"}

Flag(b) == <<"int", b>>
\* A missing value (NaN, pd.NA, None) in a team column and in a text column.
NaNV == <<"NaN">>
NullText == "<null>"

\* An idea after add_team_columns: its flag in the team column.
WithTeam(idea, team, b) ==
    [k \in DOMAIN idea \cup {team} |-> IF k = team THEN Flag(b) ELSE idea[k]]

\* ----------------------------------------------------------- Excel storage
MainSheet == "SLA Tracking"

MutExcelExists == TRUE

\* ExcelSLAStorage.exists: os.path.exists(file_path).
ExcelExists == xlState # "absent"

\* A cell as pd.read_excel and read deliver it: an empty cell and an empty
\* string are missing values; a date column goes through pd.to_datetime with
\* errors='coerce'.
ExcelCellIn(col, v) ==
    CASE col \in DateColumns -> IF IsTs(v) THEN v ELSE NaT
      [] col \in TextColumns -> IF v = "" THEN NullText ELSE v
      [] OTHER -> v

ExcelRowIn(r) == [k \in DOMAIN r |-> ExcelCellIn(k, r[k])]

\* ExcelSLAStorage.read: FileNotFoundError when the file is absent;
\* pd.read_excel raises on a file that is no workbook; otherwise the rows of
\* the first sheet (read_excel's default sheet_name=0), with the date columns
\* through pd.to_datetime.
ExcelRead ==
    IF xlState # "workbook" THEN [raised |-> TRUE, df |-> <<>>]
    ELSE [raised |-> FALSE,
          df |-> IF xlSheets[1] = MainSheet
                 THEN [i \in 1..Len(table) |-> ExcelRowIn(table[i])]
                 ELSE runs]

HasSheet(sheets, name) == \E i \in 1..Len(sheets) : sheets[i] = name

\* The points at which the I/O of a write can fail: not at all, when the
\* file is opened (nothing written yet), while the workbook is saved.
WriteFaults == {"none", "open", "save"}

\* ExcelSLAStorage.write(df). Mode 'a' with if_sheet_exists='replace' when the
\* file is a workbook (the other sheets are kept), mode 'w' otherwise (a new
\* workbook with the one sheet). A failure of the save leaves a file that is
\* no workbook.
ExcelWrite(df, fault) ==
    LET mode == IF xlState = "workbook" THEN "a" ELSE "w" IN
    CASE fault = "open" ->
            [raised |-> TRUE, xlState |-> xlState, xlSheets |-> xlSheets,
             table |-> table, runs |-> runs]
      [] fault = "save" ->
            [raised |-> TRUE, xlState |-> "corrupt", xlSheets |-> <<>>,
             table |-> <<>>, runs |-> <<>>]
      [] OTHER ->
            IF mode = "w"
            THEN [raised |-> FALSE, xlState |-> "workbook",
                  xlSheets |-> <<MainSheet>>, table |-> df, runs |-> <<>>]
            ELSE [raised |-> FALSE, xlState |-> "workbook",
                  xlSheets |-> IF HasSheet(xlSheets, MainSheet) THEN xlSheets
                               ELSE Append(xlSheets, MainSheet),
                  table |-> df, runs |-> runs]

\* ------------------------------------------------------------------ manager
Ids(df) == {df[i].id : i \in 1..Len(df)}

\* datetime.utcnow() during a pass: passes happen on successive days, after
\* every updated_at of the model.
NowOf(n) == At(2 * RoadmapWindowDays + n, 1)

\* What calculate_sla_columns reads of an idea dictionary.
CalcView(idea) ==
    [idea_status |-> idea.idea_status, created_at |-> idea.created_at,
     updated_at |-> idea.updated_at]

\* The idea dictionary with the four SLA columns the manager copies into it
\* (manager.py:191-194, 449-452, 482-485).
WithSla(idea, sla) ==
    [k \in DOMAIN idea \cup SlaColumns |->
        IF k \in SlaColumns THEN sla[k] ELSE idea[k]]

\* pd.to_datetime(..., utc=True, errors='coerce') and tz_localize(None) on a
\* date column: what is no date becomes NaT.
StoreTs(x) == IF IsTs(x) THEN x ELSE NaT

StoreRow(r) ==
    [r EXCEPT !.created_at = StoreTs(r.created_at),
              !.updated_at = StoreTs(r.updated_at),
              !.response_sla = StoreTs(r.response_sla),
              !.roadmap_sla = StoreTs(r.roadmap_sla)]

StoreDf(df) == [i \in 1..Len(df) |-> StoreRow(df[i])]

\* existing_lookup[row['id']] = row.to_dict() over iterrows: the last row of
\* an id wins.
ExistingLookup(existing_df, id) ==
    existing_df[CHOOSE i \in 1..Len(existing_df) :
                    /\ existing_df[i].id = id
                    /\ \A j \in (i + 1)..Len(existing_df) : existing_df[j].id # id]

\* existing_df[existing_df['id'] == idea_id].index[0]: the first row of the id.
RowIdx(existing_df, id) ==
    CHOOSE i \in 1..Len(existing_df) :
        /\ existing_df[i].id = id
        /\ \A j \in 1..(i - 1) : existing_df[j].id # id

\* The branch of the loop body for one filtered record: "update", "skip" or
\* "insert", against the table as it was read.
Branch(idea, stored_df) ==
    IF idea.id \in Ids(stored_df)
    THEN IF compare_timestamps(idea.updated_at,
                               ExistingLookup(stored_df, idea.id).updated_at)
         THEN "update" ELSE "skip"
    ELSE "insert"

\* existing_df.columns; the rows of a DataFrame have the same columns.
Columns(df) == IF Len(df) = 0 THEN {} ELSE DOMAIN df[1]

\* The missing value of a column.
MissingOf(col) ==
    CASE col \in TextColumns -> NullText
      [] col \in DateColumns -> NaT
      [] OTHER -> NaNV

\* The update branch's new columns: existing_df[col] = 0 for a team column,
\* pd.NA for another column (manager.py:459-465).
AddColumns(df, cols) ==
    [i \in 1..Len(df) |->
        [k \in DOMAIN df[i] \cup cols |->
            IF k \in DOMAIN df[i] THEN df[i][k]
            ELSE IF k \in TeamColumns THEN Flag(0) ELSE MissingOf(k)]]

\* existing_df.at[row_idx, col] = idea_dict[col] for each key of idea_dict.
SetCells(row, idea_dict) ==
    [k \in DOMAIN row \cup DOMAIN idea_dict |->
        IF k \in DOMAIN idea_dict THEN idea_dict[k] ELSE row[k]]

\* pd.concat([existing_df, pd.DataFrame([idea_dict])]): the columns of both,
\* a missing value where a row has no cell.
Concat(df, idea_dict) ==
    LET cols == Columns(df) \cup DOMAIN idea_dict
        Widen(r) == [k \in cols |-> IF k \in DOMAIN r THEN r[k] ELSE MissingOf(k)]
    IN  Append([i \in 1..Len(df) |-> Widen(df[i])], Widen(idea_dict))

\* One iteration of the loop over filtered_df (manager.py:423-496).
\* stored_df is the table as read (existing_lookup is built once, before the
\* loop); existing_df is the DataFrame being edited.
LoopBody(idea, stored_df, existing_df, now) ==
    LET branch == Branch(idea, stored_df) IN
    CASE branch = "update" ->
            LET existing_idea == ExistingLookup(stored_df, idea.id)
                sla == calculate_sla_columns(
                          CalcView(idea),
                          Prior(existing_idea.response_sla, existing_idea.roadmap_sla),
                          now)
                idea_dict == WithSla(idea, sla)
                widened == AddColumns(existing_df, DOMAIN idea_dict)
                row_idx == RowIdx(widened, idea.id)
            IN  [widened EXCEPT ![row_idx] = SetCells(widened[row_idx], idea_dict)]
      [] branch = "insert" ->
            Concat(existing_df,
                   WithSla(idea, calculate_sla_columns(CalcView(idea), NoPrior, now)))
      [] OTHER -> existing_df

RECURSIVE Loop(_, _, _, _, _)
Loop(filtered_df, i, stored_df, existing_df, now) ==
    IF i > Len(filtered_df) THEN existing_df
    ELSE Loop(filtered_df, i + 1, stored_df,
              LoopBody(filtered_df[i], stored_df, existing_df, now), now)

LogOf(filtered_df, stored_df) ==
    [i \in 1..Len(filtered_df) |->
        [idea |-> filtered_df[i], branch |-> Branch(filtered_df[i], stored_df)]]

MutRemoveFetched(existing_ids, fetched_ids, filtered_ids) ==
    existing_ids \cap fetched_ids

MutRemoveUnfiltered(existing_ids, fetched_ids, filtered_ids) ==
    existing_ids \ filtered_ids

\* ideas_to_remove = existing_idea_ids & fetched_idea_ids - filtered_idea_ids
\* (Python: '-' binds tighter than '&').
IdeasToRemove(existing_ids, fetched_ids, filtered_ids) ==
    existing_ids \cap (fetched_ids \ filtered_ids)

\* existing_df = existing_df[existing_df['id'] != idea_id], for each id.
DropIds(df, ids) ==
    LET Kept(r) == r.id \notin ids IN SelectSeq(df, Kept)

MutInitTable(ideas_data, now) ==
    StoreDf([i \in 1..Len(ideas_data) |->
                WithSla(ideas_data[i],
                        calculate_sla_columns(CalcView(ideas_data[i]), NoPrior, now))])

\* sla_init's table: the SLA columns with no existing data, then the filters.
InitTable(ideas_data, now) ==
    LET processed ==
            [i \in 1..Len(ideas_data) |->
                WithSla(ideas_data[i],
                        calculate_sla_columns(CalcView(ideas_data[i]), NoPrior, now))]
    IN  StoreDf(apply_idea_filters(processed).df)

\* sla_update's merged table, from the table as read and the fetched batch.
UpdateTable(fetched_ideas, stored_df, now) ==
    LET filtered_df == apply_idea_filters(fetched_ideas).df
        merged == Loop(filtered_df, 1, stored_df, stored_df, now)
        removed == IdeasToRemove(Ids(stored_df), Ids(fetched_ideas), Ids(filtered_df))
    IN  StoreDf(DropIds(merged, removed))

\* ------------------------------------------- calculator: the checked inputs
CalcStatuses == {"", "On deck", "In Review", "Accepted", "Rejected"}
CalcCreated == {NoneV, BadTs, At(0, 0), At(0, 1)}
CalcUpdated ==
    {NoneV, BadTs,
     At(ResponseWindowDays, 0), At(ResponseWindowDays, TicksPerDay - 1),
     At(ResponseWindowDays + 1, 0),
     At(RoadmapWindowDays, TicksPerDay - 1), At(RoadmapWindowDays + 1, 0)}
CalcNow ==
    {At(ResponseWindowDays, TicksPerDay - 1), At(ResponseWindowDays + 1, 0),
     At(RoadmapWindowDays + 1, 0)}
CalcIdeas ==
    [idea_status : CalcStatuses, created_at : CalcCreated, updated_at : CalcUpdated]
CalcPriorDates == {NoneV, NaT, At(2, 1), At(ResponseWindowDays + 1, 0)}
CalcPriors ==
    {NoPrior} \cup {Prior(r, d) : r \in CalcPriorDates, d \in CalcPriorDates}

NoIdea == [idea_status |-> "", created_at |-> NoneV, updated_at |-> NoneV]

NoPass ==
    /\ passes = 0
    /\ lastOp = "none"
    /\ flow = "none"
    /\ outcome = "none"
    /\ fetchFilters = "none"
    /\ fetched_idea_ids = {}
    /\ filtered_idea_ids = {}
    /\ ideas_to_remove = {}
    /\ log = <<>>
    /\ filter_stats = apply_idea_filters(<<>>).stats

NoStore ==
    /\ xlState = "absent"
    /\ xlSheets = <<>>
    /\ table = <<>>
    /\ runs = <<>>

NoFilter ==
    /\ fIn = <<>>
    /\ fOut = apply_idea_filters(<<>>)
    /\ fCalls = 0

NoSheets ==
    /\ gsTabs = <<>>
    /\ gsMain = <<>>
    /\ gsRuns = <<>>

NoOps ==
    /\ storeOps = 0
    /\ storeOp = [backend |-> "none", op |-> "none", raised |-> FALSE, arg |-> <<>>]

\* No call made yet.
NotCalled == [called |-> FALSE]

NoFn ==
    /\ eIdea = NotCalled /\ eOut = NotCalled
    /\ hList = NotCalled /\ hOut = NotCalled
    /\ zIdea = NotCalled /\ zOut = NotCalled

NoCalc ==
    /\ cIdea = NoIdea
    /\ cPrior = NoPrior
    /\ cNow = Ts(0)
    /\ cOut = calculate_sla_columns(NoIdea, NoPrior, Ts(0))
    /\ cCalls = 0

InitCalc == NoCalc /\ NoStore /\ NoPass /\ NoFilter /\ NoSheets /\ NoOps /\ NoFn

CalcFirst ==
    /\ cCalls = 0
    /\ \E idea \in CalcIdeas, prior \in CalcPriors, now \in CalcNow :
        /\ cIdea' = idea
        /\ cPrior' = prior
        /\ cNow' = now
        /\ cOut' = calculate_sla_columns(idea, prior, now)
    /\ cCalls' = 1
    /\ UNCHANGED <<storeVars, passVars, filterVars, sheetVars, opVars, fnVars>>

\* A later call for the same idea, as sla_update makes it: the prior is what
\* the earlier call returned.
CalcAgain ==
    /\ cCalls > 0
    /\ cCalls < MaxCalls
    /\ \E idea \in CalcIdeas, now \in CalcNow :
        /\ idea.created_at = cIdea.created_at
        /\ Tick(now) >= Tick(cNow)
        /\ cIdea' = idea
        /\ cPrior' = Prior(cOut.response_sla, cOut.roadmap_sla)
        /\ cNow' = now
        /\ cOut' = calculate_sla_columns(idea, Prior(cOut.response_sla, cOut.roadmap_sla), now)
    /\ cCalls' = cCalls + 1
    /\ UNCHANGED <<storeVars, passVars, filterVars, sheetVars, opVars, fnVars>>

NextCalc == CalcFirst \/ CalcAgain

vars == <<calcVars, storeVars, passVars, filterVars, sheetVars, opVars, fnVars>>

SpecCalc == InitCalc /\ [][NextCalc]_vars

\* ------------------------------------------------- manager: the checked runs
MaxId == 2
MaxRepeat == 2
MaxPasses == 3

\* Every idea of the runs is created the day after the Jason cutoff.
ApiCreated == At(JasonCutoffDay + 1, 0)
\* Three edits of an idea: on the last tick of day 14 after its creation, on
\* day 61 and on day 62.
ApiUpdated ==
    << At(JasonCutoffDay + 1 + ResponseWindowDays, TicksPerDay - 1),
       At(JasonCutoffDay + 1 + RoadmapWindowDays + 1, 0),
       At(JasonCutoffDay + 1 + RoadmapWindowDays + 2, 0) >>
ApiStatuses == {"On deck", "In Review", "Accepted"}

\* An idea as fetch_enhanced and process_ideas deliver it. The title changes
\* with the edit.
ApiIdea(id, idea_status, edit) ==
    [id |-> id,
     name |-> IF edit = 1 THEN "First title" ELSE "Later title",
     customer |-> "Acme", source_name |-> "Pat Doe", idea_status |-> idea_status,
     created_at |-> ApiCreated, updated_at |-> ApiUpdated[edit]]

\* The same idea re-filed under the TEST customer: it fails filter 3.
TestIdea(id) == [ApiIdea(id, "In Review", Len(ApiUpdated)) EXCEPT !.customer = "TEST"]

ApiIdeas ==
    {ApiIdea(id, st, e) : id \in 1..MaxId, st \in ApiStatuses, e \in 1..Len(ApiUpdated)}
        \cup {TestIdea(id) : id \in 1..MaxId}

\* What one fetch returns: nothing, one record, or one record repeated (the
\* same record on more than one page).
Batches ==
    {<<>>} \cup {[i \in 1..n |-> r] : r \in ApiIdeas, n \in 1..MaxRepeat}

Init == NoCalc /\ NoStore /\ NoPass /\ NoFilter /\ NoSheets /\ NoOps /\ NoFn

\* The write at the end of a pass, and what the caller sees of it.
Persist(df, fault) ==
    LET w == ExcelWrite(df, fault) IN
    /\ xlState' = w.xlState
    /\ xlSheets' = w.xlSheets
    /\ table' = w.table
    /\ runs' = w.runs
    /\ outcome' = IF w.raised THEN "write_error" ELSE "ok"

\* The body of sla_init: fetch everything, compute, filter, write.
InitFlow(ideas_data, fault) ==
    /\ flow' = "init"
    /\ fetchFilters' = "none"
    /\ fetched_idea_ids' = Ids(ideas_data)
    /\ filtered_idea_ids' = Ids(apply_idea_filters(ideas_data).df)
    /\ filter_stats' = apply_idea_filters(ideas_data).stats
    /\ ideas_to_remove' = {}
    /\ log' = <<>>
    /\ Persist(InitTable(ideas_data, NowOf(passes)), fault)

\* The incremental body of sla_update, on a store that exists.
UpdateFlow(fetched_ideas, fault) ==
    LET filtered_df == apply_idea_filters(fetched_ideas).df
        existing == ExcelRead
    IN  /\ flow' = "update"
        /\ fetchFilters' = "updated_at_gteq"
        /\ fetched_idea_ids' = Ids(fetched_ideas)
        /\ filtered_idea_ids' = Ids(filtered_df)
        /\ filter_stats' = apply_idea_filters(fetched_ideas).stats
        /\ IF existing.raised
           THEN /\ outcome' = "read_error"
                /\ log' = <<>>
                /\ ideas_to_remove' = {}
                /\ UNCHANGED storeVars
           ELSE /\ log' = LogOf(filtered_df, existing.df)
                /\ ideas_to_remove' =
                        IdeasToRemove(Ids(existing.df), Ids(fetched_ideas), Ids(filtered_df))
                /\ Persist(UpdateTable(fetched_ideas, existing.df, NowOf(passes)), fault)

\* sla_init, for the fetches and write faults of a specification.
SlaInitOn(batches, faults, maxPasses) ==
    /\ passes < maxPasses
    /\ \E ideas_data \in batches, fault \in faults : InitFlow(ideas_data, fault)
    /\ passes' = passes + 1
    /\ lastOp' = "sla_init"
    /\ UNCHANGED <<calcVars, filterVars, sheetVars, opVars, fnVars>>

\* sla_update: sla_init when the store does not exist.
SlaUpdateOn(batches, faults, maxPasses) ==
    /\ passes < maxPasses
    /\ \E batch \in batches, fault \in faults :
        IF ~ExcelExists THEN InitFlow(batch, fault) ELSE UpdateFlow(batch, fault)
    /\ passes' = passes + 1
    /\ lastOp' = "sla_update"
    /\ UNCHANGED <<calcVars, filterVars, sheetVars, opVars, fnVars>>

SlaInit == SlaInitOn(Batches, WriteFaults, MaxPasses)

SlaUpdate == SlaUpdateOn(Batches, WriteFaults, MaxPasses)

Next == SlaInit \/ SlaUpdate

Spec == Init /\ [][Next]_vars

\* ------------------------------------------------ runs with team columns
MaxTeamId == 3
MaxTeamPasses == 2

\* The ideas of a fetch made while the team mapping is empty.
PlainIdea(id, edit) == ApiIdea(id, "In Review", edit)

\* The ideas of a fetch made while the team mapping holds Engineering.
TeamIdea(id, edit, b) == WithTeam(PlainIdea(id, edit), "Engineering", b)

\* A fetch of one or two ideas; the ideas of a fetch have the same columns.
TeamBatches ==
    {<<PlainIdea(a, e)>> : a \in 1..MaxTeamId, e \in 1..2}
        \cup {<<TeamIdea(a, e, t)>> : a \in 1..MaxTeamId, e \in 1..2, t \in 0..1}
        \cup {<<PlainIdea(a, e), PlainIdea(b, f)>> :
                    a \in 1..MaxTeamId, b \in 1..MaxTeamId, e \in 1..2, f \in 1..2}
        \cup {<<TeamIdea(a, e, t), TeamIdea(b, f, u)>> :
                    a \in 1..MaxTeamId, b \in 1..MaxTeamId, e \in 1..2, f \in 1..2,
                    t \in 0..1, u \in 0..1}

TeamInit == SlaInitOn(TeamBatches, {"none"}, MaxTeamPasses)

TeamUpdate == SlaUpdateOn(TeamBatches, {"none"}, MaxTeamPasses)

NextTeams == TeamInit \/ TeamUpdate

SpecTeams == Init /\ [][NextTeams]_vars

\* ------------------------------------- runs with records without updated_at
\* A record that the API delivers without updated_at.
StaleIdea(id) == [ApiIdea(id, "In Review", 1) EXCEPT !.updated_at = NoneV]

StaleIdeas ==
    {ApiIdea(id, "In Review", e) : id \in 1..MaxId, e \in 1..Len(ApiUpdated)}
        \cup {StaleIdea(id) : id \in 1..MaxId}

\* What one fetch returns: nothing or one record.
StaleBatches == {<<>>} \cup {<<r>> : r \in StaleIdeas}

StaleInit == SlaInitOn(StaleBatches, {"none"}, MaxPasses)

StaleUpdate == SlaUpdateOn(StaleBatches, {"none"}, MaxPasses)

NextStale == StaleInit \/ StaleUpdate

SpecStale == Init /\ [][NextStale]_vars

\* ------------------------------------------- filter pipeline: checked inputs
MaxFilterBatch == 2

\* created_at around the two cutoffs: absent, the last tick before the floor
\* cutoff, the cutoff, the last tick before the Jason cutoff, that cutoff.
FilterCreated ==
    {NoneV, Ts(FloorCutoffDay * TicksPerDay - 1), At(FloorCutoffDay, 0),
     Ts(JasonCutoffDay * TicksPerDay - 1), At(JasonCutoffDay, 0)}
FilterSources == {"Jason Ladicos", "Pat Doe"}
FilterCustomers == {"TEST", "TEST ", "test"}

FilterRows ==
    [id : {1}, created_at : FilterCreated, source_name : FilterSources,
     customer : FilterCustomers]

FilterBatches == UNION {[1..n -> FilterRows] : n \in 0..MaxFilterBatch}

InitFilter ==
    /\ NoCalc /\ NoStore /\ NoPass /\ NoSheets /\ NoOps /\ NoFn
    /\ fIn \in FilterBatches
    /\ fOut = apply_idea_filters(<<>>)
    /\ fCalls = 0

ApplyFilters ==
    /\ fCalls = 0
    /\ fOut' = apply_idea_filters(fIn)
    /\ fCalls' = 1
    /\ UNCHANGED <<fIn, calcVars, storeVars, passVars, sheetVars, opVars, fnVars>>

NextFilter == ApplyFilters

SpecFilter == InitFilter /\ [][NextFilter]_vars

\* ------------------------------------------------------ extract_idea_status
\* A value of the API's JSON: a missing key, null, or a string.
Absent == <<"absent">>
Null == <<"null">>
Str(x) == <<"str", x>>

\* str.lower() on the labels of the model.
Lower(x) == IF x = "Idea Status" THEN "idea status" ELSE x

\* The loop over custom_dropdown_fields from entry i on. An entry that is no
\* dict is passed over; label.lower() raises AttributeError on a label that
\* is null; the first entry whose label matches decides.
RECURSIVE ScanFields(_, _)
ScanFields(fields, i) ==
    IF i > Len(fields) THEN [raised |-> FALSE, value |-> ""]
    ELSE LET field == fields[i]
             label == IF field.label = Absent THEN Str("") ELSE field.label
         IN  IF ~field.dict THEN ScanFields(fields, i + 1)
             ELSE IF label = Null THEN [raised |-> TRUE, value |-> ""]
             ELSE IF Lower(label[2]) = "idea status"
             THEN [raised |-> FALSE,
                   value |-> IF field.value \in {Absent, Null} THEN ""
                             ELSE field.value[2]]
             ELSE ScanFields(fields, i + 1)

\* extract_idea_status(idea); bag is idea's custom_dropdown_fields: Absent,
\* Null, <<"notlist">> or <<"list", fields>>.
extract_idea_status(bag) ==
    IF bag[1] # "list" THEN [raised |-> FALSE, value |-> ""]
    ELSE ScanFields(bag[2], 1)

MaxFields == 2

FieldLabels == {Absent, Null, Str("idea status"), Str("Idea Status"), Str("priority")}
FieldValues == {Absent, Null, Str("Accepted"), Str("On deck")}
\* The entries of a bag: dictionaries, and an entry that is no dictionary.
Fields ==
    [dict : {TRUE}, label : FieldLabels, value : FieldValues]
        \cup {[dict |-> FALSE, label |-> Absent, value |-> Absent]}
Bags ==
    {Absent, Null, <<"notlist">>}
        \cup {<<"list", f>> : f \in UNION {[1..n -> Fields] : n \in 0..MaxFields}}

InitExtract ==
    /\ NoCalc /\ NoStore /\ NoPass /\ NoFilter /\ NoSheets /\ NoOps
    /\ eIdea \in Bags
    /\ eOut = NotCalled
    /\ hList = NotCalled /\ hOut = NotCalled
    /\ zIdea = NotCalled /\ zOut = NotCalled

ExtractStatus ==
    /\ eOut = NotCalled
    /\ LET res == extract_idea_status(eIdea) IN
        eOut' = [called |-> TRUE, raised |-> res.raised, value |-> res.value]
    /\ UNCHANGED <<eIdea, hList, hOut, zIdea, zOut>>
    /\ UNCHANGED <<calcVars, storeVars, passVars, filterVars, sheetVars, opVars>>

NextExtract == ExtractStatus

SpecExtract == InitExtract /\ [][NextExtract]_vars

\* ----------------------------------------------------------- fetch_enhanced
\* An entry of the list response: its id (NoId when the entry has none), the
\* idea status in its custom_dropdown_fields, its location_status, and how
\* the request for its detail ends: "ok", "request_error" (a
\* requests.exceptions.RequestException: connection failure, 4XX, 5XX) or
\* "other_error" (any other exception).
NoId == 0

\* BaseResource._make_request as fetch_details calls it: a RequestException
\* is caught and answered with sys.exit(1); another exception propagates.
MakeRequest(detail) ==
    CASE detail = "request_error" -> "exit"
      [] detail = "other_error" -> "raise"
      [] OTHER -> "ok"

\* The idea with the data of the list response only, and merged with its
\* detail.
ListLevel(item) == [id |-> item.id, data |-> "list", location_status |-> item.location_status]
Detailed(item) == [id |-> item.id, data |-> "detail", location_status |-> item.location_status]

\* The location_status filter on the detailed idea.
KeepLocation(location_status, idea_location_status) ==
    CASE location_status = "not_archived" -> idea_location_status # "archived"
      [] location_status \in {"archived", "visible", "hidden"} ->
            idea_location_status = location_status
      [] OTHER -> TRUE

\* The loop of fetch_enhanced from entry i on; enhanced_ideas is the list
\* built so far. SystemExit is no Exception: the except clause of the loop
\* does not catch it and the process exits.
RECURSIVE EnhanceFrom(_, _, _, _, _)
EnhanceFrom(ideas, i, location_status, idea_status, enhanced_ideas) ==
    IF i > Len(ideas) THEN [exited |-> FALSE, ideas |-> enhanced_ideas]
    ELSE LET idea == ideas[i]
             Continue(acc) == EnhanceFrom(ideas, i + 1, location_status, idea_status, acc)
         IN  IF idea.id = NoId THEN Continue(Append(enhanced_ideas, ListLevel(idea)))
             ELSE IF idea.idea_status = "Ignore"
             THEN IF idea_status = "all"
                  THEN Continue(Append(enhanced_ideas, ListLevel(idea)))
                  ELSE Continue(enhanced_ideas)
             ELSE CASE MakeRequest(idea.detail) = "exit" ->
                        [exited |-> TRUE, ideas |-> <<>>]
                    [] MakeRequest(idea.detail) = "raise" ->
                        IF KeepLocation(location_status, idea.location_status)
                        THEN Continue(Append(enhanced_ideas, ListLevel(idea)))
                        ELSE Continue(enhanced_ideas)
                    [] OTHER ->
                        IF KeepLocation(location_status, idea.location_status)
                        THEN Continue(Append(enhanced_ideas, Detailed(idea)))
                        ELSE Continue(enhanced_ideas)

\* IdeasResource.fetch_enhanced on the entries of the list response.
fetch_enhanced(ideas, location_status, idea_status) ==
    EnhanceFrom(ideas, 1, location_status, idea_status, <<>>)

MaxListed == 2

ListedIdeas ==
    [id : {NoId, 1}, idea_status : {"Ignore", "In Review"},
     location_status : {"visible", "archived"},
     detail : {"ok", "request_error", "other_error"}]

\* The SLA flows fetch with location_status 'all'; the default of the
\* parameter is 'not_archived'. idea_status is left at None.
InitFetch ==
    /\ NoCalc /\ NoStore /\ NoPass /\ NoFilter /\ NoSheets /\ NoOps
    /\ eIdea = NotCalled /\ eOut = NotCalled
    /\ zIdea = NotCalled /\ zOut = NotCalled
    /\ \E ideas \in UNION {[1..n -> ListedIdeas] : n \in 0..MaxListed},
          location_status \in {"all", "not_archived"} :
            hList = [called |-> TRUE, ideas |-> ideas,
                     location_status |-> location_status, idea_status |-> "None"]
    /\ hOut = NotCalled

FetchEnhanced ==
    /\ hOut = NotCalled
    /\ LET res == fetch_enhanced(hList.ideas, hList.location_status, hList.idea_status) IN
        hOut' = [called |-> TRUE, exited |-> res.exited, ideas |-> res.ideas]
    /\ UNCHANGED <<eIdea, eOut, hList, zIdea, zOut>>
    /\ UNCHANGED <<calcVars, storeVars, passVars, filterVars, sheetVars, opVars>>

NextFetch == FetchEnhanced

SpecFetch == InitFetch /\ [][NextFetch]_vars

\* --------------------------------------- calculate_sla_columns: time zones
\* tzinfo of a datetime: set ("aware", a string ending in Z or an offset) or
\* None ("naive").
Zones == {"aware", "naive"}

\* A deadline minus created_at in the computation of a currently_meets
\* column: a deadline that is a string has no tzinfo (AttributeError); a
\* naive deadline takes the tzinfo of created_at; an aware deadline minus a
\* naive created_at is a TypeError.
DeadlineRaises(deadline, deadline_zone, created_zone) ==
    \/ deadline[1] = "str"
    \/ deadline_zone = "aware" /\ created_zone = "naive"

\* Whether calculate_sla_columns raises. zone gives the tzinfo of each
\* timestamp that parses; utcnow() is naive.
SlaColumnsRaise(idea, zone, existing_sla_data) ==
    LET idea_status == idea.idea_status
        created_at == ParseTs(idea.created_at)
        updated_at == ParseTs(idea.updated_at)
        sla_zone == IF updated_at # NoneV THEN zone.updated_at ELSE "naive"
        sla_date == IF updated_at # NoneV THEN updated_at ELSE Ts(0)
        prior_response == PriorDeadline(existing_sla_data, "response_sla")
        prior_roadmap == PriorDeadline(existing_sla_data, "roadmap_sla")
        response_sla == ResponseStamp(prior_response, idea_status, sla_date)
        roadmap_sla == RoadmapStamp(prior_roadmap, idea_status, sla_date)
        response_zone == IF prior_response = NoneV THEN sla_zone ELSE zone.response_sla
        roadmap_zone == IF prior_roadmap = NoneV THEN sla_zone ELSE zone.roadmap_sla
    IN  \/ /\ response_sla # NoneV
           /\ idea_status # ""
           /\ idea_status # "On deck"
           /\ created_at # NoneV
           /\ DeadlineRaises(response_sla, response_zone, zone.created_at)
        \/ /\ roadmap_sla # NoneV
           /\ idea_status \in {"Accepted", "Rejected"}
           /\ created_at # NoneV
           /\ DeadlineRaises(roadmap_sla, roadmap_zone, zone.created_at)

\* The checked calls: every status, created_at and updated_at absent,
\* malformed or valid, aware or naive; no prior deadlines, or each prior
\* deadline absent, NaT, a string or a datetime, aware or naive.
ZoneCreated == {NoneV, BadTs, At(0, 0)}
ZoneUpdated == {NoneV, BadTs, At(1, 0)}
ZonePriorDates == {NoneV, NaT, BadTs, At(1, 1)}
ZoneCalls ==
    [idea : [idea_status : CalcStatuses, created_at : ZoneCreated,
             updated_at : ZoneUpdated],
     zone : [created_at : Zones, updated_at : Zones,
             response_sla : Zones, roadmap_sla : Zones],
     prior : {NoPrior} \cup {Prior(r, d) : r \in ZonePriorDates, d \in ZonePriorDates},
     now : {At(2, 0)}]

InitZones ==
    /\ NoCalc /\ NoStore /\ NoPass /\ NoFilter /\ NoSheets /\ NoOps
    /\ eIdea = NotCalled /\ eOut = NotCalled
    /\ hList = NotCalled /\ hOut = NotCalled
    /\ zIdea \in ZoneCalls
    /\ zOut = NotCalled

CalcZones ==
    /\ zOut = NotCalled
    /\ zOut' = IF SlaColumnsRaise(zIdea.idea, zIdea.zone, zIdea.prior)
               THEN [called |-> TRUE, raised |-> TRUE]
               ELSE [called |-> TRUE, raised |-> FALSE,
                     columns |-> calculate_sla_columns(zIdea.idea, zIdea.prior, zIdea.now)]
    /\ UNCHANGED <<eIdea, eOut, hList, hOut, zIdea>>
    /\ UNCHANGED <<calcVars, storeVars, passVars, filterVars, sheetVars, opVars>>

NextZones == CalcZones

SpecZones == InitZones /\ [][NextZones]_vars

\* ------------------------------------------------------------ the Runs log
\* config.get_runs_sheet_name(): GOOGLE_SHEET_RUNS_NAME, 'Runs' by default.
RunsSheet == "Runs"

\* The row of one record_run call; the timestamp is the clock of the call.
RunRecord(run_type, clock, records_added, records_updated) ==
    [type |-> run_type, timestamp |-> clock,
     records_added |-> records_added, records_updated |-> records_updated]

MutExcelRecordRun(rec) ==
    CASE xlState = "absent" ->
            [raised |-> FALSE, xlState |-> "workbook", xlSheets |-> <<RunsSheet>>,
             table |-> <<>>, runs |-> <<rec>>]
      [] xlState = "corrupt" ->
            [raised |-> TRUE, xlState |-> xlState, xlSheets |-> xlSheets,
             table |-> table, runs |-> runs]
      [] OTHER ->
            [raised |-> FALSE, xlState |-> "workbook",
             xlSheets |-> IF HasSheet(xlSheets, RunsSheet) THEN xlSheets
                          ELSE Append(xlSheets, RunsSheet),
             table |-> table, runs |-> <<rec>>]

\* ExcelSLAStorage.record_run. No file: a new workbook holding only the Runs
\* sheet. A file: ExcelWriter in mode 'a' (it raises on a file that is no
\* workbook); the rows of the Runs sheet, when there is one, are read, the
\* new row is concatenated and the sheet is written over (overlay);
\* otherwise the Runs sheet is added after the existing sheets.
ExcelRecordRun(rec) ==
    CASE xlState = "absent" ->
            [raised |-> FALSE, xlState |-> "workbook", xlSheets |-> <<RunsSheet>>,
             table |-> <<>>, runs |-> <<rec>>]
      [] xlState = "corrupt" ->
            [raised |-> TRUE, xlState |-> xlState, xlSheets |-> xlSheets,
             table |-> table, runs |-> runs]
      [] OTHER ->
            [raised |-> FALSE, xlState |-> "workbook",
             xlSheets |-> IF HasSheet(xlSheets, RunsSheet) THEN xlSheets
                          ELSE Append(xlSheets, RunsSheet),
             table |-> table,
             runs |-> IF HasSheet(xlSheets, RunsSheet) THEN Append(runs, rec)
                      ELSE <<rec>>]

\* ---------------------------------------------------- Google Sheets storage
\* The tab of the main table (self.sheet_name).
GsMainTab == "SLA Tracking"

GsMainHeader == [header |-> "main"]
GsRunsHeader == [header |-> "runs"]

\* A date cell as write sends it: strftime('%Y-%m-%d %H:%M:%S'), '' for a
\* missing value.
GsDateOut(x) == IF IsTs(x) THEN <<"str", Tick(x)>> ELSE <<"empty">>

\* A date cell as read returns it: '' becomes None, pd.to_datetime with
\* errors='coerce'.
GsDateIn(x) == IF x[1] = "str" THEN Ts(x[2]) ELSE NaT

\* A cell as write sends it and get_all_values returns it: the text of the
\* value (<<"str", v>> is the text of v), '' for a missing value.
GsCellOut(col, v) ==
    CASE col \in DateColumns -> GsDateOut(v)
      [] col \in TextColumns ->
            IF v \in {"", NullText} THEN <<"empty">> ELSE <<"str", v>>
      [] col \in TeamColumns ->
            IF v = NaNV THEN <<"empty">> ELSE <<"str", v[2]>>
      [] OTHER -> <<"str", v>>

\* A cell as read delivers it: '' is None; the date columns are parsed, id
\* goes through pd.to_numeric, the two boolean columns through the
\* 'TRUE'/'FALSE' map; every other column keeps the text of the cell.
GsCellIn(col, c) ==
    CASE col \in DateColumns -> GsDateIn(c)
      [] col \in TextColumns -> IF c = <<"empty">> THEN NullText ELSE c[2]
      [] col = "id" -> c[2]
      [] col \in BoolColumns -> c[2]
      [] OTHER -> IF c = <<"empty">> THEN NaNV ELSE c

GsRowOut(r) == [k \in DOMAIN r |-> GsCellOut(k, r[k])]

GsRowIn(r) == [k \in DOMAIN r |-> GsCellIn(k, r[k])]

\* GoogleSheetsSLAStorage.exists: the tab is in the spreadsheet.
GsExists == HasSheet(gsTabs, GsMainTab)

\* GoogleSheetsSLAStorage.read: raises when the tab is missing; an empty
\* DataFrame for a tab without values; otherwise the rows under the header.
GsRead ==
    IF ~GsExists THEN [raised |-> TRUE, df |-> <<>>]
    ELSE [raised |-> FALSE,
          df |-> IF gsMain = <<>> THEN <<>>
                 ELSE [i \in 1..(Len(gsMain) - 1) |-> GsRowIn(gsMain[i + 1])]]

\* GoogleSheetsSLAStorage.write(df): the tab is created when missing,
\* cleared, and the header and the rows are written from A1.
GsWriteOp(df) ==
    [gsTabs |-> IF GsExists THEN gsTabs ELSE Append(gsTabs, GsMainTab),
     gsMain |-> <<GsMainHeader>> \o [i \in 1..Len(df) |-> GsRowOut(df[i])],
     gsRuns |-> gsRuns]

\* GoogleSheetsSLAStorage.record_run: the Runs tab is created with its
\* header row when missing; the record is appended after the last row.
GsRecordRunOp(rec) ==
    [gsTabs |-> IF HasSheet(gsTabs, RunsSheet) THEN gsTabs
                ELSE Append(gsTabs, RunsSheet),
     gsMain |-> gsMain,
     gsRuns |-> IF HasSheet(gsTabs, RunsSheet) THEN Append(gsRuns, rec)
                ELSE <<GsRunsHeader, rec>>]

\* --------------------------------------------- storage calls: checked inputs
MaxStoreOps == 4

\* The tables handed to write: none, one row, two rows, one row with a team
\* column, one row of an idea without status.
StoreTables ==
    { <<>>,
      InitTable(<<ApiIdea(1, "In Review", 1)>>, NowOf(1)),
      InitTable(<<ApiIdea(1, "Accepted", 2), ApiIdea(2, "On deck", 1)>>, NowOf(2)),
      InitTable(<<WithTeam(ApiIdea(1, "In Review", 1), "Engineering", 1)>>, NowOf(1)),
      InitTable(<<ApiIdea(1, "", 1)>>, NowOf(1)) }

\* (run_type, records_added, records_updated) of a record_run call.
RunInputs == { <<"init", 1, 0>>, <<"update", 0, 1>> }

\* A first row of the Runs tab that is not the header of record_run.
GsOldHeader == [header |-> "old"]

\* The Runs tab before the first call: missing, there without values, or
\* there with a first row that is not the header.
GsRunsTabs ==
    { [gsTabs |-> <<>>, gsRuns |-> <<>>],
      [gsTabs |-> <<RunsSheet>>, gsRuns |-> <<>>],
      [gsTabs |-> <<RunsSheet>>, gsRuns |-> <<GsOldHeader>>] }

\* The path holds no file or a file that is no workbook; the spreadsheet has
\* no main tab yet.
InitStore ==
    /\ NoCalc /\ NoPass /\ NoFilter /\ NoOps /\ NoFn
    /\ gsMain = <<>>
    /\ \E t \in GsRunsTabs : gsTabs = t.gsTabs /\ gsRuns = t.gsRuns
    /\ xlState \in {"absent", "corrupt"}
    /\ xlSheets = <<>>
    /\ table = <<>>
    /\ runs = <<>>

StoreCall(backend, op, raised, arg) ==
    /\ storeOps' = storeOps + 1
    /\ storeOp' = [backend |-> backend, op |-> op, raised |-> raised, arg |-> arg]
    /\ UNCHANGED <<calcVars, passVars, filterVars, fnVars>>

XlWrite ==
    /\ storeOps < MaxStoreOps
    /\ \E df \in StoreTables :
        LET w == ExcelWrite(df, "none") IN
        /\ xlState' = w.xlState
        /\ xlSheets' = w.xlSheets
        /\ table' = w.table
        /\ runs' = w.runs
        /\ StoreCall("excel", "write", w.raised, df)
    /\ UNCHANGED sheetVars

XlRecordRun ==
    /\ storeOps < MaxStoreOps
    /\ \E i \in RunInputs :
        LET w == ExcelRecordRun(RunRecord(i[1], storeOps, i[2], i[3])) IN
        /\ xlState' = w.xlState
        /\ xlSheets' = w.xlSheets
        /\ table' = w.table
        /\ runs' = w.runs
        /\ StoreCall("excel", "record_run", w.raised, <<>>)
    /\ UNCHANGED sheetVars

GsWrite ==
    /\ storeOps < MaxStoreOps
    /\ \E df \in StoreTables :
        LET w == GsWriteOp(df) IN
        /\ gsTabs' = w.gsTabs
        /\ gsMain' = w.gsMain
        /\ gsRuns' = w.gsRuns
        /\ StoreCall("sheets", "write", FALSE, df)
    /\ UNCHANGED storeVars

GsRecordRun ==
    /\ storeOps < MaxStoreOps
    /\ \E i \in RunInputs :
        LET w == GsRecordRunOp(RunRecord(i[1], storeOps, i[2], i[3])) IN
        /\ gsTabs' = w.gsTabs
        /\ gsMain' = w.gsMain
        /\ gsRuns' = w.gsRuns
    /\ StoreCall("sheets", "record_run", FALSE, <<>>)
    /\ UNCHANGED storeVars

NextStore == XlWrite \/ XlRecordRun \/ GsWrite \/ GsRecordRun

SpecStore == InitStore /\ [][NextStore]_vars

\* ------------------------------------------------------------------ claims

IsSet(d) == d # NoneV /\ d # NaT

\* C1: calculate_sla_columns returns a non-null prior response_sla (resp.
\* roadmap_sla) unchanged, whatever the status, created_at and updated_at
\* are; and over a chain of recomputations that feed each result back as the
\* prior, a deadline that is set never changes.
C1_WriteOnce ==
    /\ [](cCalls > 0 /\ cPrior.given =>
            /\ IsSet(cPrior.response_sla) => cOut.response_sla = cPrior.response_sla
            /\ IsSet(cPrior.roadmap_sla) => cOut.roadmap_sla = cPrior.roadmap_sla)
    /\ [][cCalls > 0 =>
            /\ cOut.response_sla # NoneV => cOut'.response_sla = cOut.response_sla
            /\ cOut.roadmap_sla # NoneV => cOut'.roadmap_sla = cOut.roadmap_sla]_vars

\* C1 witness: a recomputation whose status and updated_at would stamp both
\* deadlines anew, and which returned the earlier, different deadlines.
C1_Witness ==
    /\ cCalls > 1
    /\ cIdea.idea_status = "Accepted"
    /\ IsTs(cIdea.updated_at)
    /\ IsTs(cPrior.response_sla)
    /\ IsTs(cPrior.roadmap_sla)
    /\ cPrior.response_sla # cIdea.updated_at
    /\ cPrior.roadmap_sla # cIdea.updated_at
    /\ cOut.response_sla = cPrior.response_sla
    /\ cOut.roadmap_sla = cPrior.roadmap_sla

\* The rows of an id, in table order.
RowsOf(df, id) == LET HasId(r) == r.id = id IN SelectSeq(df, HasId)

\* A step that is one pass of the given flow.
PassStep(f) == passes' = passes + 1 /\ flow' = f

LogIds(l) == {l[i].idea.id : i \in 1..Len(l)}

\* The branches the log gives an id.
BranchesOf(l, id) == {l[i].branch : i \in {j \in 1..Len(l) : l[j].idea.id = id}}

\* C2: across sla_update passes, for every id that stays in the table, a
\* stored response_sla (roadmap_sla) that is set keeps its value in every
\* row of the id when the pass rewrites the table.
C2_DeadlinesPreserved ==
    [][PassStep("update") /\ outcome' = "ok" =>
        \A id \in Ids(table) \cap Ids(table') :
            LET old == RowsOf(table, id)
                new == RowsOf(table', id)
            IN  /\ Len(new) = Len(old)
                /\ \A k \in 1..Len(old) :
                    /\ IsSet(old[k].response_sla) =>
                            new[k].response_sla = old[k].response_sla
                    /\ IsSet(old[k].roadmap_sla) =>
                            new[k].roadmap_sla = old[k].roadmap_sla]_vars

\* C3: in sla_update every record that survives the filters gets exactly one
\* branch: insert iff its id is not stored; otherwise update iff its
\* updated_at is strictly newer than the updated_at the index holds for the
\* id (the last stored row of the id), and skip iff it is not. The row an
\* update writes is computed with the indexed deadlines as prior, the row an
\* insert appends with no prior.
C3_Classification ==
    [][PassStep("update") /\ outcome' # "read_error" =>
        /\ LogIds(log') = filtered_idea_ids'
        /\ \A i \in 1..Len(log') :
            LET r == log'[i].idea
                b == log'[i].branch
                stored == RowsOf(table, r.id)
            IN  /\ b \in {"update", "skip", "insert"}
                /\ (b = "insert") = (Len(stored) = 0)
                /\ Len(stored) > 0 =>
                    LET s == stored[Len(stored)] IN
                    /\ (b = "update") = (Tick(r.updated_at) > Tick(s.updated_at))
                    /\ (b = "skip") = (Tick(r.updated_at) <= Tick(s.updated_at))
                    /\ b = "update" /\ outcome' = "ok" =>
                        RowsOf(table', r.id)[1] =
                            StoreRow(WithSla(r, calculate_sla_columns(
                                CalcView(r), Prior(s.response_sla, s.roadmap_sla),
                                NowOf(passes))))
                /\ b = "insert" /\ outcome' = "ok" =>
                    \E k \in 1..Len(table') :
                        table'[k] =
                            StoreRow(WithSla(r, calculate_sla_columns(
                                CalcView(r), NoPrior, NowOf(passes))))]_vars

\* C3 witness: an update pass that wrote a row whose response deadline is the
\* earlier stored one and whose roadmap deadline is stamped by this edit.
C3_Witness ==
    /\ flow = "update"
    /\ outcome = "ok"
    /\ \E i \in 1..Len(log) :
        /\ log[i].branch = "update"
        /\ log[i].idea.idea_status = "Accepted"
        /\ LET row == RowsOf(table, log[i].idea.id)[1] IN
            /\ row.updated_at = log[i].idea.updated_at
            /\ IsTs(row.response_sla)
            /\ row.response_sla # row.updated_at
            /\ row.roadmap_sla = row.updated_at

\* C4: the ids sla_update removes from the table are exactly the stored ids
\* that were fetched in this pass and did not survive the filters; the rows
\* of every other stored id stay.
C4_RemovedSet ==
    [][PassStep("update") /\ outcome' = "ok" =>
        /\ \A id \in Ids(table) :
            (id \notin Ids(table')) =
                (id \in fetched_idea_ids' /\ id \notin filtered_idea_ids')
        /\ ideas_to_remove' = Ids(table) \ Ids(table')]_vars

\* C4 witness: a pass that dropped the stored row of a re-fetched idea that
\* now fails the filters, and kept the row of another idea.
C4_Witness ==
    /\ flow = "update"
    /\ outcome = "ok"
    /\ \E id \in ideas_to_remove :
        /\ id \in fetched_idea_ids
        /\ id \notin filtered_idea_ids
        /\ id \notin Ids(table)
    /\ Len(table) > 0

\* C5: an sla_update pass leaves the rows of every stored id unchanged when
\* the id was not fetched in this pass, and when every record fetched for it
\* is classified skip.
C5_Frame ==
    [][PassStep("update") /\ outcome' = "ok" =>
        \A id \in Ids(table) :
            \/ id \notin fetched_idea_ids'
            \/ id \in filtered_idea_ids' /\ BranchesOf(log', id) = {"skip"}
            => RowsOf(table', id) = RowsOf(table, id)]_vars

\* C5 witness: a pass that skipped a fetched record whose title and status
\* differ from the stored row, which still holds the stored title, while
\* the row of an idea that was not fetched is in the table too.
C5_Witness ==
    /\ flow = "update"
    /\ outcome = "ok"
    /\ \E i \in 1..Len(log) :
        /\ log[i].branch = "skip"
        /\ LET row == RowsOf(table, log[i].idea.id)[1] IN
            /\ row.name # log[i].idea.name
            /\ row.idea_status # log[i].idea.idea_status
            /\ Tick(row.updated_at) > Tick(log[i].idea.updated_at)
    /\ \E id \in Ids(table) : id \notin fetched_idea_ids

\* C6: every pass whose table write succeeded creates exactly one RunRecord,
\* of the type of the flow it ran.
C6_OneRunRecordPerPass ==
    [][passes' = passes + 1 /\ outcome' = "ok" =>
        /\ Len(runs') = Len(runs) + 1
        /\ runs'[Len(runs')].type = flow']_vars

\* C7: sla_update on a store that does not exist runs the init flow (fetch
\* without filters, every deadline computed with no prior, write of the
\* full table) and nothing else: no read error, no incremental step.
C7_MissingStoreRunsInit ==
    [][passes' = passes + 1 /\ lastOp' = "sla_update" /\ xlState = "absent" =>
        /\ flow' = "init"
        /\ fetchFilters' = "none"
        /\ outcome' # "read_error"
        /\ log' = <<>>
        /\ ideas_to_remove' = {}
        /\ outcome' = "ok" =>
            /\ xlState' = "workbook"
            /\ Ids(table') = filtered_idea_ids'
            /\ \A k \in 1..Len(table') :
                /\ table'[k].response_sla \in {NaT, table'[k].updated_at}
                /\ table'[k].roadmap_sla \in {NaT, table'[k].updated_at}]_vars

\* C7 witness: the first pass is an sla_update, which ran the init flow and
\* wrote a table with a stamped row.
C7_Witness ==
    /\ passes = 1
    /\ lastOp = "sla_update"
    /\ flow = "init"
    /\ outcome = "ok"
    /\ xlState = "workbook"
    /\ \E k \in 1..Len(table) : table[k].roadmap_sla = table[k].updated_at

\* C8: an sla_update pass whose fetch returns no record leaves the table
\* unchanged and adds exactly one row to the audit log.
C8_EmptyDelta ==
    [][PassStep("update") /\ fetched_idea_ids' = {} /\ outcome' = "ok" =>
        /\ table' = table
        /\ Len(runs') = Len(runs) + 1]_vars

\* C9: a pass whose storage.write fails leaves the persisted store as it was
\* before the pass, and no RunRecord is appended.
C9_FailedWriteKeepsStore ==
    [][passes' = passes + 1 /\ outcome' = "write_error" =>
        /\ xlState' = xlState
        /\ table' = table
        /\ runs' = runs]_vars

Elapsed(deadline, created_at) == Tick(deadline) - Tick(ParseTs(created_at))

\* C10: the met window is inclusive. With a valid status and a known
\* created_at, a deadline 14 days (and less than 15) after created_at gives
\* currently_meets_response_sla = TRUE, 15 days gives FALSE; 60 days gives
\* currently_meets_roadmap_sla = TRUE, 61 days gives FALSE.
C10_InclusiveWindow ==
    cCalls > 0 /\ IsTs(cIdea.created_at) =>
        /\ cIdea.idea_status \notin {"", "On deck"} /\ cOut.response_sla # NoneV =>
            LET e == Elapsed(cOut.response_sla, cIdea.created_at) IN
            /\ (e >= ResponseWindowDays * TicksPerDay
                    /\ e < (ResponseWindowDays + 1) * TicksPerDay)
                 => cOut.currently_meets_response_sla
            /\ (e >= (ResponseWindowDays + 1) * TicksPerDay
                    /\ e < (ResponseWindowDays + 2) * TicksPerDay)
                 => ~cOut.currently_meets_response_sla
        /\ cIdea.idea_status \in {"Accepted", "Rejected"} /\ cOut.roadmap_sla # NoneV =>
            LET e == Elapsed(cOut.roadmap_sla, cIdea.created_at) IN
            /\ (e >= RoadmapWindowDays * TicksPerDay
                    /\ e < (RoadmapWindowDays + 1) * TicksPerDay)
                 => cOut.currently_meets_roadmap_sla
            /\ (e >= (RoadmapWindowDays + 1) * TicksPerDay
                    /\ e < (RoadmapWindowDays + 2) * TicksPerDay)
                 => ~cOut.currently_meets_roadmap_sla

\* C10 witness: a response deadline on the last tick of day 14 that is met,
\* in a call whose roadmap deadline falls on day 60 and is met too.
C10_Witness ==
    /\ cCalls > 0
    /\ IsTs(cIdea.created_at)
    /\ cIdea.idea_status = "Accepted"
    /\ cOut.response_sla # NoneV
    /\ cOut.roadmap_sla # NoneV
    /\ Elapsed(cOut.response_sla, cIdea.created_at)
            = (ResponseWindowDays + 1) * TicksPerDay - 1
    /\ Elapsed(cOut.roadmap_sla, cIdea.created_at) \div TicksPerDay = RoadmapWindowDays
    /\ cOut.currently_meets_response_sla
    /\ cOut.currently_meets_roadmap_sla

\* The deadlines a call starts from: none when no existing data is given or
\* the stored cell is empty.
NoPriorResponse == ~cPrior.given \/ cPrior.response_sla \in {NoneV, NaT}
NoPriorRoadmap == ~cPrior.given \/ cPrior.roadmap_sla \in {NoneV, NaT}

ResponseOpen(idea_status) == idea_status \in {"", "On deck"}
RoadmapOpen(idea_status) == idea_status \notin {"Accepted", "Rejected"}

\* C11: a met flag is true only with a deadline that is set, a known
\* created_at and a status still valid for the category; a call with status
\* 'On deck' and stored deadlines returns the stored deadlines and both met
\* flags false.
C11_MetNeedsValidStatus ==
    cCalls > 0 =>
        /\ cOut.currently_meets_response_sla =>
            /\ IsSet(cOut.response_sla)
            /\ IsTs(cIdea.created_at)
            /\ ~ResponseOpen(cIdea.idea_status)
        /\ cOut.currently_meets_roadmap_sla =>
            /\ IsSet(cOut.roadmap_sla)
            /\ IsTs(cIdea.created_at)
            /\ ~RoadmapOpen(cIdea.idea_status)
        /\ (cIdea.idea_status = "On deck" /\ ~NoPriorResponse /\ ~NoPriorRoadmap) =>
            /\ cOut.response_sla = cPrior.response_sla
            /\ cOut.roadmap_sla = cPrior.roadmap_sla
            /\ ~cOut.currently_meets_response_sla
            /\ ~cOut.currently_meets_roadmap_sla

\* C11 witness: an idea that met both windows as 'Accepted' and is then
\* recomputed as 'On deck': the deadlines are kept, the met flags are false.
C11_Witness ==
    /\ cCalls > 1
    /\ cIdea.idea_status = "On deck"
    /\ IsTs(cIdea.created_at)
    /\ IsTs(cPrior.response_sla)
    /\ IsTs(cPrior.roadmap_sla)
    /\ Elapsed(cPrior.response_sla, cIdea.created_at) <= ResponseWindowDays * TicksPerDay
    /\ cOut.response_sla = cPrior.response_sla
    /\ cOut.roadmap_sla = cPrior.roadmap_sla
    /\ ~cOut.currently_meets_response_sla
    /\ ~cOut.currently_meets_roadmap_sla

\* now - created_at in whole days is within the window.
WithinWindow(now, created_at, window) ==
    /\ IsTs(created_at)
    /\ (Tick(now) - Tick(created_at)) \div TicksPerDay <= window

\* C12: for each category, in_good_standing = met OR (the deadline is unset
\* AND the status is still open for the category AND now - created_at is
\* within the window).
C12_GoodStandingFormula ==
    cCalls > 0 =>
        /\ cOut.response_sla_in_good_standing =
            (\/ cOut.currently_meets_response_sla
             \/ /\ ~IsSet(cOut.response_sla)
                /\ ResponseOpen(cIdea.idea_status)
                /\ WithinWindow(cNow, cIdea.created_at, ResponseWindowDays))
        /\ cOut.roadmap_sla_in_good_standing =
            (\/ cOut.currently_meets_roadmap_sla
             \/ /\ ~IsSet(cOut.roadmap_sla)
                /\ RoadmapOpen(cIdea.idea_status)
                /\ WithinWindow(cNow, cIdea.created_at, RoadmapWindowDays))

\* C13: for both categories, met implies in_good_standing.
C13_MetImpliesGoodStanding ==
    cCalls > 0 =>
        /\ cOut.currently_meets_response_sla => cOut.response_sla_in_good_standing
        /\ cOut.currently_meets_roadmap_sla => cOut.roadmap_sla_in_good_standing

\* C13 witness: both windows met, computed after both windows have passed.
C13_Witness ==
    /\ cCalls > 0
    /\ WithinWindow(cNow, cIdea.created_at, RoadmapWindowDays + 1)
    /\ ~WithinWindow(cNow, cIdea.created_at, RoadmapWindowDays)
    /\ cOut.currently_meets_response_sla
    /\ cOut.currently_meets_roadmap_sla
    /\ cOut.response_sla_in_good_standing
    /\ cOut.roadmap_sla_in_good_standing

\* The date a call stamps: the record's updated_at, or now without one.
StampDate == IF IsTs(cIdea.updated_at) THEN cIdea.updated_at ELSE cNow

\* C14: with no prior deadline, response_sla is stamped iff the status is
\* non-empty and not 'On deck', roadmap_sla iff the status is 'Accepted' or
\* 'Rejected'; the stamp is updated_at, or now when updated_at is absent;
\* otherwise the deadline stays null and the met flag is false.
C14_StampOnEntry ==
    cCalls > 0 =>
        /\ NoPriorResponse =>
            IF ~ResponseOpen(cIdea.idea_status)
            THEN cOut.response_sla = StampDate
            ELSE cOut.response_sla = NoneV /\ ~cOut.currently_meets_response_sla
        /\ NoPriorRoadmap =>
            IF ~RoadmapOpen(cIdea.idea_status)
            THEN cOut.roadmap_sla = StampDate
            ELSE cOut.roadmap_sla = NoneV /\ ~cOut.currently_meets_roadmap_sla

\* C14 witness: a first call for an 'In Review' idea without updated_at: the
\* response deadline is the current time and the roadmap deadline is null.
C14_Witness ==
    /\ cCalls = 1
    /\ ~cPrior.given
    /\ cIdea.idea_status = "In Review"
    /\ cIdea.updated_at = NoneV
    /\ cOut.response_sla = cNow
    /\ cOut.roadmap_sla = NoneV

\* C15: without created_at, both met flags and both in_good_standing flags
\* are false, and the deadlines are still stamped from updated_at by status.
C15_MissingCreatedAt ==
    cCalls > 0 /\ cIdea.created_at = NoneV =>
        /\ ~cOut.currently_meets_response_sla
        /\ ~cOut.currently_meets_roadmap_sla
        /\ ~cOut.response_sla_in_good_standing
        /\ ~cOut.roadmap_sla_in_good_standing
        /\ (NoPriorResponse /\ ~ResponseOpen(cIdea.idea_status)) =>
                cOut.response_sla = StampDate
        /\ (NoPriorRoadmap /\ ~RoadmapOpen(cIdea.idea_status)) =>
                cOut.roadmap_sla = StampDate

\* C15 witness: an 'Accepted' idea without created_at, both deadlines stamped
\* with its updated_at, the four flags false.
C15_Witness ==
    /\ cCalls = 1
    /\ cIdea.created_at = NoneV
    /\ cIdea.idea_status = "Accepted"
    /\ IsTs(cIdea.updated_at)
    /\ ~cPrior.given
    /\ cOut.response_sla = cIdea.updated_at
    /\ cOut.roadmap_sla = cIdea.updated_at
    /\ ~cOut.currently_meets_response_sla
    /\ ~cOut.response_sla_in_good_standing
    /\ ~cOut.roadmap_sla_in_good_standing

\* A record of the universe of the runs that passes the three filters.
Eligible(r) ==
    /\ IsTs(r.created_at)
    /\ Tick(r.created_at) >= FloorCutoffDay * TicksPerDay
    /\ ~(r.source_name = "Jason Ladicos"
            /\ Tick(r.created_at) < JasonCutoffDay * TicksPerDay)
    /\ r.customer # "TEST"

ApplyRule(k, df) ==
    CASE k = 1 -> SelectSeq(df, KeepDate)
      [] k = 2 -> SelectSeq(df, NotJason)
      [] OTHER -> SelectSeq(df, NotTest)

RuleOrders == {o \in [1..3 -> 1..3] : \A a, b \in 1..3 : o[a] = o[b] => a = b}

FailsDate(r) == ~(IsTs(r.created_at) /\ Tick(r.created_at) >= FloorCutoffDay * TicksPerDay)
FailsJason(r) ==
    /\ ~FailsDate(r)
    /\ r.source_name = "Jason Ladicos"
    /\ Tick(r.created_at) < JasonCutoffDay * TicksPerDay
FailsTest(r) == ~FailsDate(r) /\ ~FailsJason(r) /\ r.customer = "TEST"

\* C18: the statistics count sequentially: date_filtered what rule 1
\* removes, jason_filtered what rule 2 removes of the rest, test_filtered
\* what rule 3 removes of the rest after that; their sum is total_filtered
\* = initial_count - remaining; an empty batch gives all zeros.
C18_SequentialStats ==
    fCalls > 0 =>
        LET st == fOut.stats IN
        /\ st.initial_count = Len(fIn)
        /\ st.remaining = Len(fOut.df)
        /\ st.date_filtered = Len(SelectSeq(fIn, FailsDate))
        /\ st.jason_filtered = Len(SelectSeq(fIn, FailsJason))
        /\ st.test_filtered = Len(SelectSeq(fIn, FailsTest))
        /\ st.date_filtered + st.jason_filtered + st.test_filtered = st.total_filtered
        /\ st.total_filtered = st.initial_count - st.remaining
        /\ Len(fIn) = 0 =>
            /\ fOut.df = <<>>
            /\ st.total_filtered = 0

\* C18 witness: a record that both rule 1 and rule 2 would remove is counted
\* by rule 1 only, next to a record removed by rule 3.
C18_Witness ==
    /\ fCalls > 0
    /\ Len(fIn) = 2
    /\ fIn[1].source_name = "Jason Ladicos"
    /\ fIn[1].customer = "TEST"
    /\ fIn[1].created_at = Ts(FloorCutoffDay * TicksPerDay - 1)
    /\ fIn[2].customer = "TEST"
    /\ fIn[2].created_at = At(JasonCutoffDay, 0)
    /\ fOut.stats.date_filtered = 1
    /\ fOut.stats.jason_filtered = 0
    /\ fOut.stats.test_filtered = 1
    /\ fOut.stats.total_filtered = 2

StoreStep(backend, op) ==
    /\ storeOps' = storeOps + 1
    /\ storeOp'.backend = backend
    /\ storeOp'.op = op
    /\ ~storeOp'.raised

IsRunRecord(r) ==
    DOMAIN r = {"type", "timestamp", "records_added", "records_updated"}

\* The run rows of the Google Sheets log: the rows that are no header.
GsRunRows(values) == SelectSeq(values, IsRunRecord)

\* C19: the main table and the Runs log are independent regions: a write
\* leaves the Runs rows exactly as before the call, and a record_run leaves
\* the main table, as read back, exactly as before the call.
C19_IndependentRegions ==
    [][/\ StoreStep("excel", "write") => runs' = runs
       /\ StoreStep("sheets", "write") => gsRuns' = gsRuns
       /\ StoreStep("excel", "record_run") => ExcelRead' = ExcelRead
       /\ StoreStep("sheets", "record_run") => GsRead' = GsRead]_vars

\* C20: the Runs log is append-only: a record_run call adds exactly one row
\* of four fields at the end of the log and leaves the earlier rows as they
\* were, in the same order; the first call creates the log.
C20_AppendOnly ==
    [][/\ StoreStep("excel", "record_run") =>
            /\ HasSheet(xlSheets', RunsSheet)
            /\ Len(runs') = Len(runs) + 1
            /\ SubSeq(runs', 1, Len(runs)) = runs
            /\ IsRunRecord(runs'[Len(runs')])
            /\ runs'[Len(runs')].timestamp = storeOps
       /\ StoreStep("sheets", "record_run") =>
            /\ HasSheet(gsTabs', RunsSheet)
            /\ Len(GsRunRows(gsRuns')) = Len(GsRunRows(gsRuns)) + 1
            /\ SubSeq(GsRunRows(gsRuns'), 1, Len(GsRunRows(gsRuns))) = GsRunRows(gsRuns)
            /\ IsRunRecord(gsRuns'[Len(gsRuns')])
            /\ gsRuns'[Len(gsRuns')].timestamp = storeOps]_vars

\* C20 witness: after a write and two record_run calls on the workbook and
\* one on the spreadsheet, the logs hold the records in call order.
C20_Witness ==
    /\ storeOp.op = "record_run"
    /\ ~storeOp.raised
    /\ HasSheet(xlSheets, MainSheet)
    /\ Len(table) > 0
    /\ Len(runs) = 2
    /\ runs[1].timestamp < runs[2].timestamp
    /\ runs[1].type = "init"
    /\ runs[2].type = "update"
    /\ Len(GsRunRows(gsRuns)) = 1

\* C21: round trip: for every table T, write(T) followed by read() returns
\* the rows of T with the same cell values (integers, booleans, 1/0 team
\* flags, null dates and timestamps as written), on both storage backends.
C21_RoundTrip ==
    [][/\ StoreStep("excel", "write") =>
            /\ ~ExcelRead'.raised
            /\ ExcelRead'.df = storeOp'.arg
       /\ StoreStep("sheets", "write") =>
            /\ ~GsRead'.raised
            /\ GsRead'.df = storeOp'.arg]_vars

\* The entries of a bag whose label is 'idea status' ignoring case.
IsStatusField(field) ==
    /\ field.dict
    /\ field.label \notin {Absent, Null}
    /\ field.label[2] \in {"idea status", "Idea Status"}

\* C22: extract_idea_status returns the value of the first entry labelled
\* 'idea status' ignoring case, and the empty string when there is none, when
\* its value is null, or when the bag is absent, null, no list or holds
\* malformed entries; it never raises.
C22_ExtractStatus ==
    eOut.called =>
        /\ ~eOut.raised
        /\ IF eIdea[1] = "list" /\ \E i \in 1..Len(eIdea[2]) : IsStatusField(eIdea[2][i])
           THEN LET first == CHOOSE i \in 1..Len(eIdea[2]) :
                                /\ IsStatusField(eIdea[2][i])
                                /\ \A j \in 1..(i - 1) : ~IsStatusField(eIdea[2][j])
                    v == eIdea[2][first].value
                IN  eOut.value = IF v \in {Absent, Null} THEN "" ELSE v[2]
           ELSE eOut.value = ""

\* The entries whose detail is requested and whose request fails.
FailedDetail(idea) ==
    /\ idea.id # NoId
    /\ idea.idea_status # "Ignore"
    /\ idea.detail # "ok"

\* C23: a failure while fetching one record's detail never aborts the pass:
\* the fetch goes on with the remaining records, and with location_status
\* 'all' the failing record is kept with its list-level data.
C23_DetailFailureKeepsPass ==
    hOut.called =>
        /\ ~hOut.exited
        /\ hList.location_status = "all" =>
            /\ Len(hOut.ideas) = Len(SelectSeq(hList.ideas, LAMBDA x : x.idea_status # "Ignore" \/ x.id = NoId))
            /\ \A i \in 1..Len(hList.ideas) :
                FailedDetail(hList.ideas[i]) =>
                    \E j \in 1..Len(hOut.ideas) : hOut.ideas[j] = ListLevel(hList.ideas[i])

\* C24: when an update of sla_update brings a team column that the stored
\* table did not have, the column is added and every other stored row (a
\* row of an id that the pass does not bring) has the default value 0 in it.
C24_NewTeamColumnDefault ==
    [][PassStep("update") /\ outcome' = "ok" =>
        \A e \in 1..Len(log') :
            \A g \in TeamColumns :
                /\ log'[e].branch = "update"
                /\ g \in DOMAIN log'[e].idea
                /\ g \notin Columns(ExcelRead.df)
                => \A k \in 1..Len(table') :
                        /\ table'[k].id \in Ids(ExcelRead.df)
                        /\ table'[k].id \notin LogIds(log')
                        => /\ g \in DOMAIN table'[k]
                           /\ table'[k][g] = Flag(0)]_vars

\* The timestamps handed to compare_timestamps: missing, empty, unparseable
\* and two valid ones.
StampValues == {NoneV, EmptyStr, BadTs, At(1, 0), At(2, 0)}

IsMissingStamp(x) == x = NoneV \/ x = EmptyStr

\* C25: compare_timestamps is False when the API timestamp is missing or
\* either timestamp cannot be parsed, and True when the API timestamp is
\* valid and the stored one is missing; in an update pass a stored row
\* without updated_at is updated by a fetched record with a valid updated_at,
\* and a fetched record without updated_at never overwrites a stored row.
C25_MissingTimestamps ==
    [][/\ \A a \in StampValues, b \in StampValues :
            /\ IsMissingStamp(a) \/ a = BadTs \/ b = BadTs => ~compare_timestamps(a, b)
            /\ IsTs(a) /\ IsMissingStamp(b) => compare_timestamps(a, b)
       /\ PassStep("update") /\ outcome' = "ok" =>
            \A e \in 1..Len(log') :
                LET idea == log'[e].idea IN
                idea.id \in Ids(table) =>
                    /\ IsTs(idea.updated_at)
                            /\ ~IsTs(ExistingLookup(table, idea.id).updated_at)
                        => log'[e].branch = "update"
                    /\ ~IsTs(idea.updated_at) => log'[e].branch # "update"]_vars

\* C26: a record_run call of the Google Sheets store on a Runs tab that is
\* there without values, or whose first row is not the header, leaves the
\* tab with the header followed by the new run row and nothing else; a Runs
\* tab without values counts as zero earlier runs.
C26_RunsHeaderRepaired ==
    [][/\ StoreStep("sheets", "record_run")
       /\ HasSheet(gsTabs, RunsSheet)
       /\ (gsRuns = <<>> \/ gsRuns[1] # GsRunsHeader)
       => /\ Len(gsRuns') = 2
          /\ gsRuns'[1] = GsRunsHeader
          /\ IsRunRecord(gsRuns'[2])
          /\ gsRuns'[2].timestamp = storeOps]_vars

\* C27: calculate_sla_columns never raises, whatever combination of absent,
\* malformed, timezone-aware and timezone-naive created_at, updated_at and
\* prior deadlines it is given; an unparseable timestamp is treated as
\* absent.
C27_NeverRaises ==
    zOut.called =>
        /\ ~zOut.raised
        /\ zOut.columns =
              calculate_sla_columns(
                  [zIdea.idea EXCEPT !.created_at = ParseTs(@), !.updated_at = ParseTs(@)],
                  zIdea.prior, zIdea.now)

OneRowPerId(df) == \A id \in Ids(df) : Len(RowsOf(df, id)) = 1

\* The records of an id that a pass counts as added or updated.
Counted(l, id) ==
    {i \in 1..Len(l) : l[i].idea.id = id /\ l[i].branch \in {"insert", "update"}}

\* C28: identity stays unique: when the stored table has one row per id, the
\* table an sla_update pass writes has one row per id, also when the fetch
\* repeats an id, and the pass counts each id at most once as added or
\* updated.
C28_IdentityUnique ==
    [][PassStep("update") /\ outcome' = "ok" /\ OneRowPerId(table) =>
        /\ OneRowPerId(table')
        /\ \A id \in LogIds(log') : Cardinality(Counted(log', id)) <= 1]_vars

\* C29: in every table that sla_init and sla_update passes leave, a row with
\* a roadmap deadline has a response deadline, and the response deadline is
\* not later than the roadmap deadline.
C29_ResponseBeforeRoadmap ==
    \A k \in 1..Len(table) :
        IsSet(table[k].roadmap_sla) =>
            /\ IsSet(table[k].response_sla)
            /\ Tick(table[k].response_sla) <= Tick(table[k].roadmap_sla)

\* C29 witness: after an init pass and two update passes the table holds a
\* row whose response deadline is earlier than its roadmap deadline, and a
\* pass has updated that row since.
C29_Witness ==
    /\ flow = "update"
    /\ outcome = "ok"
    /\ passes = MaxPasses
    /\ \E i \in 1..Len(log) :
        /\ log[i].branch = "update"
        /\ LET row == RowsOf(table, log[i].idea.id)[1] IN
            /\ IsSet(row.roadmap_sla)
            /\ IsSet(row.response_sla)
            /\ Tick(row.response_sla) < Tick(row.roadmap_sla)
            /\ Tick(row.roadmap_sla) < Tick(row.updated_at)

\* C30: on both storage backends, whenever exists() is true, read() does not
\* raise and returns the main table (also for a file that is no workbook and
\* for a workbook that holds only the Runs sheet).
C30_ExistsImpliesReadable ==
    /\ ExcelExists =>
            /\ ~ExcelRead.raised
            /\ ExcelRead.df = [i \in 1..Len(table) |-> ExcelRowIn(table[i])]
    /\ GsExists =>
            /\ ~GsRead.raised
            /\ Len(GsRead.df) = Len(gsMain) - 1

====
